---- MODULE Spec2Model ----
(***************************************************************************)
(* Model of the analysis engine of src/code_auditor.py (CodebaseAuditor):  *)
(* file discovery, per-file AST analysis, complexity scoring and import    *)
(* resolution.  Strings are sequences of one-character strings so that     *)
(* split / join / replace / slicing / substring tests are computed as the  *)
(* Python code computes them.                                              *)
(***************************************************************************)
EXTENDS Integers, Sequences, FiniteSets, TLC

(* ---------------------------- bounds ----------------------------------- *)
\* largest number of files in the directory tree under the root
MaxFiles == 2
\* largest number of run() invocations in one behaviour
MaxPasses == 2

(* ------------------------- string helpers ------------------------------ *)
Range(s) == {s[i] : i \in 1..Len(s)}

Dot == "."
\* os.sep on the platform the tool is run on (POSIX)
Sep == "/"

\* s[:-n] for n > 0
DropLast(s, n) == IF Len(s) > n THEN SubSeq(s, 1, Len(s) - n) ELSE <<>>

\* s.replace(c, d) for one-character c and d
Replace(s, c, d) == [i \in 1..Len(s) |-> IF s[i] = c THEN d ELSE s[i]]

\* s.startswith(p)
StartsWith(s, p) == Len(p) <= Len(s) /\ SubSeq(s, 1, Len(p)) = p

\* s.endswith(p)
EndsWith(s, p) == Len(p) <= Len(s) /\ SubSeq(s, Len(s) - Len(p) + 1, Len(s)) = p

\* p in s   (substring test)
Contains(s, p) == \E k \in 0..(Len(s) - Len(p)) : SubSeq(s, k + 1, k + Len(p)) = p

RECURSIVE Join(_, _)
\* sep.join(parts), sep a one-character string
Join(parts, sep) ==
    IF Len(parts) = 0 THEN <<>>
    ELSE IF Len(parts) = 1 THEN parts[1]
    ELSE parts[1] \o <<sep>> \o Join(Tail(parts), sep)

RECURSIVE Split(_, _)
\* s.split(sep): "a..b" gives ['a', '', 'b'], "" gives ['']
Split(s, sep) ==
    IF \A i \in 1..Len(s) : s[i] # sep THEN <<s>>
    ELSE LET k == CHOOSE i \in 1..Len(s) :
                      s[i] = sep /\ \A h \in 1..(i - 1) : s[h] # sep
         IN  <<SubSeq(s, 1, k - 1)>> \o Split(SubSeq(s, k + 1, Len(s)), sep)

UpperCase == <<"A","B","C","D","E","F","G","H","I","J","K","L","M",
               "N","O","P","Q","R","S","T","U","V","W","X","Y","Z">>
LowerCase == <<"a","b","c","d","e","f","g","h","i","j","k","l","m",
               "n","o","p","q","r","s","t","u","v","w","x","y","z">>

\* s.lower()
Lower(s) == [i \in 1..Len(s) |->
               IF \E k \in 1..26 : UpperCase[k] = s[i]
               THEN LowerCase[CHOOSE k \in 1..26 : UpperCase[k] = s[i]]
               ELSE s[i]]

(* --------------------------- literals ---------------------------------- *)
ExtPy   == <<".","p","y">>
ExtCsv  == <<".","c","s","v">>
ExtXlsx == <<".","x","l","s","x">>
ExtJson == <<".","j","s","o","n">>
ExtYaml == <<".","y","a","m","l">>
DataExtensions == {ExtCsv, ExtXlsx, ExtJson, ExtYaml}

ExcludedDirs == { <<"_","_","p","y","c","a","c","h","e","_","_">>,
                  <<"_","b","u","i","l","d">>,
                  <<".","p","y","t","e","s","t","_","c","a","c","h","e">>,
                  <<".","v","e","n","v">> }

StrategyWord   == <<"s","t","r","a","t","e","g","y">>
StrategiesWord == <<"s","t","r","a","t","e","g","i","e","s">>

\* the literal searched for in the raw text of a file
GuardText == "if __name__ == \"__main__\""

\* node kinds counted by the complexity estimate
BranchKinds == {"If", "For", "While", "Try", "With"}

(* ------------------------ syntax trees --------------------------------- *)
\* A parsed file is the sequence of its AST nodes in the order ast.walk
\* yields them (breadth first: a node's parent always precedes it and
\* parents are non-decreasing).  parent = 0 marks the Module node.
\* `names` are the aliases of an Import, `module`/`level` belong to an
\* ImportFrom; module << >> stands for node.module being None.
Node(kind, name, parent) ==
    [kind |-> kind, name |-> name, parent |-> parent,
     names |-> <<>>, module |-> <<>>, level |-> 0]

ImportNode(parent, names) ==
    [kind |-> "Import", name |-> <<>>, parent |-> parent,
     names |-> names, module |-> <<>>, level |-> 0]

ImportFromNode(parent, module, level, names) ==
    [kind |-> "ImportFrom", name |-> <<>>, parent |-> parent,
     names |-> names, module |-> module, level |-> level]

RECURSIVE InSubtree(_, _, _)
\* n is r or a descendant of r: the nodes ast.walk(r) yields
InSubtree(tree, n, r) ==
    IF n = r THEN TRUE
    ELSE IF tree[n].parent = 0 THEN FALSE
    ELSE InSubtree(tree, tree[n].parent, r)

(* ---------------------- names used in the trees ------------------------ *)
s_a    == <<"a">>
s_b    == <<"b">>
s_f    == <<"f">>
s_g    == <<"g">>
s_h    == <<"h">>
s_m    == <<"m">>
s_n    == <<"n">>
s_x    == <<"x">>
s_pk   == <<"p","k">>
s_pkg  == <<"p","k","g">>
s_pkga == <<"p","k","g",".","a">>
s_pkgax == <<"p","k","g",".","a",".","x">>
s_venv == <<".","v","e","n","v">>
s_xstrategies == <<"x">> \o StrategiesWord
c_H    == <<"H">>
c_Foo  == <<"F","o","o">>
c_FooStrategy == <<"F","o","o","S","t","r","a","t","e","g","y">>
c_Strategies  == <<"S","t","r","a","t","e","g","i","e","s">>

PyName(stem) == stem \o ExtPy

(* --------------------------- file contents ----------------------------- *)
\* text: the raw text as a sequence of fragments; parses: whether
\* ast.parse(text) succeeds; tree: its result when it does.
Content(text, parses, tree) == [text |-> text, parses |-> parses, tree |-> tree]

\* def f():
\*     if True: pass
TreeFIf ==
    << Node("Module", <<>>, 0),
       Node("FunctionDef", s_f, 1),
       Node("If", <<>>, 2),
       Node("Constant", <<>>, 3),
       Node("Pass", <<>>, 3) >>

\* from . import a
TreeFromDotA ==
    << Node("Module", <<>>, 0),
       ImportFromNode(1, <<>>, 1, <<s_a>>) >>

\* from .a import f ; import pkg.a, pk ; from .. import pkg ; from ..pkg import a
TreeRel ==
    << Node("Module", <<>>, 0),
       ImportFromNode(1, s_a, 1, <<s_f>>),
       ImportNode(1, <<s_pkga, s_pk>>),
       ImportFromNode(1, <<>>, 2, <<s_pkg>>),
       ImportFromNode(1, s_pkg, 2, <<s_a>>) >>

\* import pkg.a.x, pkg.a ; from pkg import a ; if __name__ == "__main__": pass
TreeMain ==
    << Node("Module", <<>>, 0),
       ImportNode(1, <<s_pkgax, s_pkga>>),
       ImportFromNode(1, s_pkg, 0, <<s_a>>),
       Node("If", <<>>, 1),
       Node("Compare", <<>>, 4),
       Node("Pass", <<>>, 4) >>

\* def g():
\*     while x:
\*         try: pass
\*         except E: pass
\*     def h():
\*         with x: pass
\*         for i in x: 1 if i else 2
\* class K:
\*     def m(self): pass
\*     async def n(self):
\*         if x: pass
TreeNested ==
    << Node("Module", <<>>, 0),
       Node("FunctionDef", s_g, 1),
       Node("ClassDef", <<"K">>, 1),
       Node("While", <<>>, 2),
       Node("FunctionDef", s_h, 2),
       Node("FunctionDef", s_m, 3),
       Node("AsyncFunctionDef", s_n, 3),
       Node("Try", <<>>, 4),
       Node("With", <<>>, 5),
       Node("For", <<>>, 5),
       Node("Pass", <<>>, 6),
       Node("If", <<>>, 7),
       Node("ExceptHandler", <<>>, 8),
       Node("Pass", <<>>, 9),
       Node("Expr", <<>>, 10),
       Node("Pass", <<>>, 12),
       Node("IfExp", <<>>, 15) >>

\* from ... import pkg  (module part "pkg", level 3)
\* from ..b import x    (module part "b", level 2)
TreeUp ==
    << Node("Module", <<>>, 0),
       ImportFromNode(1, s_pkg, 3, <<s_x>>),
       ImportFromNode(1, s_b, 2, <<s_x>>) >>

\* class H: pass
\* class Strategies:
\*     def m(self): pass
\* class FooStrategy:
\*     def m(self): pass
\*     def n(self):
\*         def h(): pass
\* class Foo:
\*     class FooStrategy: pass
TreeClasses ==
    << Node("Module", <<>>, 0),
       Node("ClassDef", c_H, 1),
       Node("ClassDef", c_Strategies, 1),
       Node("ClassDef", c_FooStrategy, 1),
       Node("ClassDef", c_Foo, 1),
       Node("Pass", <<>>, 2),
       Node("FunctionDef", s_m, 3),
       Node("FunctionDef", s_m, 4),
       Node("FunctionDef", s_n, 4),
       Node("ClassDef", c_FooStrategy, 5),
       Node("Pass", <<>>, 7),
       Node("Pass", <<>>, 8),
       Node("FunctionDef", s_h, 9),
       Node("Pass", <<>>, 10),
       Node("Pass", <<>>, 13) >>

ContentFIf      == Content(<<"def f():", "if True: pass">>, TRUE, TreeFIf)
ContentFromDotA == Content(<<"from . import a">>, TRUE, TreeFromDotA)
ContentRel      == Content(<<"imports">>, TRUE, TreeRel)
ContentMain     == Content(<<"imports", GuardText, ": pass">>, TRUE, TreeMain)
\* a guarded script with a syntax error: ast.parse raises SyntaxError
ContentBroken   == Content(<<GuardText, ": main(">>, FALSE, <<>>)
\* a syntax error and no guard
ContentBad      == Content(<<"def (">>, FALSE, <<>>)
ContentNested   == Content(<<"def g", "class K">>, TRUE, TreeNested)
ContentUp       == Content(<<"from ... import">>, TRUE, TreeUp)
ContentClasses  == Content(<<"classes">>, TRUE, TreeClasses)
ContentData     == Content(<<"1,2">>, FALSE, <<>>)

(* --------------------------- directory trees --------------------------- *)
\* A file is its path relative to the root (a sequence of names, the last
\* one the file name) and its content.
File(path, content) == [path |-> path, content |-> content]

FilePool ==
    { File(<<s_pkg, PyName(s_a)>>, ContentFIf),
      File(<<s_pkg, PyName(s_b)>>, ContentFromDotA),
      File(<<s_pkg, PyName(s_b)>>, ContentRel),
      File(<<PyName(s_pkg)>>, ContentMain),
      File(<<PyName(s_pkg)>>, ContentBad),
      File(<<PyName(s_m)>>, ContentBroken),
      File(<<PyName(<<"a",".","b">>)>>, ContentNested),
      File(<<s_a, PyName(s_b)>>, ContentUp),
      File(<<s_a, PyName(s_b)>>, ContentFIf),
      File(<<StrategiesWord, PyName(s_x)>>, ContentClasses),
      File(<<PyName(s_xstrategies)>>, ContentClasses),
      File(<<PyName(s_x)>>, ContentClasses),
      File(<<s_venv, PyName(s_b)>>, ContentFIf),
      File(<<s_x \o ExtCsv>>, ContentData) }

DirOf(path) == SubSeq(path, 1, Len(path) - 1)

IsPrefix(p, q) == Len(p) <= Len(q) /\ SubSeq(q, 1, Len(p)) = p

\* the directories both paths lie under
CommonDirs(p, q) ==
    {SubSeq(DirOf(p), 1, k) : k \in {h \in 0..Len(DirOf(p)) :
                                        IsPrefix(SubSeq(DirOf(p), 1, h), DirOf(q))}}

\* fs lists the files of a tree in an order a top-down os.walk can visit
\* them: one file per path, a directory's own files before the files of
\* its subdirectories, every directory's subtree visited in one piece.
IsWalkOrder(fs) ==
    /\ \A i, j \in 1..Len(fs) : i # j => fs[i].path # fs[j].path
    /\ \A i, j \in 1..Len(fs) :
          i < j => ~(DirOf(fs[j].path) # DirOf(fs[i].path)
                     /\ IsPrefix(DirOf(fs[j].path), DirOf(fs[i].path)))
    /\ \A i, j, k \in 1..Len(fs) :
          (i < k /\ k < j) =>
             \A d \in CommonDirs(fs[i].path, fs[j].path) : IsPrefix(d, DirOf(fs[k].path))

Trees == {fs \in UNION {[1..n -> FilePool] : n \in 1..MaxFiles} : IsWalkOrder(fs)}

(* ------------------------------ state ---------------------------------- *)
VARIABLES
    fs,                 \* the directory tree under root_dir, in walk order
    python_files,       \* self.python_files (list of paths)
    project_modules,    \* self.project_modules (set of dotted names)
    functions,          \* self.functions: key -> [complexity]
    classes,            \* self.classes: key -> [methods, is_strategy]
    main_entry_points,  \* self.main_entry_points (list of module names)
    dependencies,       \* self.dependencies: module -> set of module names
    data_files,         \* self.data_files (list of paths)
    pc,                 \* position of run(): idle, discover, analyze, done, aborted
    i,                  \* position of the os.walk loop of _discover_files
    j,                  \* position of the loop over python_files in run()
    passes,             \* number of run() calls so far, on any auditor
    runs,               \* number of run() calls on the current auditor
    first,              \* << >> or <<store as it was when the first pass ended>>
    addDepCalls,        \* number of _add_dependency calls so far
    entryHits           \* per position of python_files in the current run():
                        \* whether _analyze_file appended an entry point

vars == <<fs, python_files, project_modules, functions, classes, main_entry_points,
          dependencies, data_files, pc, i, j, passes, runs, first, addDepCalls,
          entryHits>>

EmptyMap == [k \in {} |-> 0]

\* the AnalysisStore: the auditor's result fields
Store ==
    [python_files |-> python_files, project_modules |-> project_modules,
     functions |-> functions, classes |-> classes,
     main_entry_points |-> main_entry_points, dependencies |-> dependencies,
     data_files |-> data_files]

(* ---------------------------- _discover_files -------------------------- *)
\* os.walk with the in-place pruning of dirs: files below a directory whose
\* name is excluded are never visited
Walk(tree) ==
    SelectSeq(tree, LAMBDA f : \A k \in 1..(Len(f.path) - 1) : f.path[k] \notin ExcludedDirs)

\* an identifier made of the file's stem alone
ModuleNameDropsDirs(path) == DropLast(path[Len(path)], 3)

\* str(file_path.relative_to(self.root_dir)).replace(os.sep, '.')[:-3]
ModuleName(path) == DropLast(Replace(Join(path, Sep), Sep, Dot), 3)

FileName(path) == path[Len(path)]

\* the body of the loop over files, on the fields it writes
DiscoverFile(st, path) ==
    IF EndsWith(FileName(path), ExtPy)
    THEN [st EXCEPT !.python_files = Append(@, path),
                    !.project_modules = @ \cup {ModuleName(path)}]
    ELSE IF \E e \in DataExtensions : EndsWith(FileName(path), e)
    THEN [st EXCEPT !.data_files = Append(@, path)]
    ELSE st

(* ---------------------------- _add_dependency -------------------------- *)
ResolveDep(module_name, dep_name, level) ==
    IF level > 0
    THEN LET parts == Split(module_name, Dot)
             base  == DropLast(parts, level)
         IN  Join(base \o (IF dep_name # <<>> THEN <<dep_name>> ELSE <<>>), Dot)
    ELSE dep_name

MapAdd(deps, key, val) ==
    [k \in DOMAIN deps \cup {key} |->
        IF k = key THEN (IF key \in DOMAIN deps THEN deps[key] ELSE {}) \cup {val}
        ELSE deps[k]]

AddDependency(deps, mods, module_name, dep_name, level) ==
    LET resolved_dep == ResolveDep(module_name, dep_name, level)
    IN  IF \E proj_mod \in mods :
               proj_mod = resolved_dep /\ StartsWith(resolved_dep, proj_mod)
        THEN MapAdd(deps, module_name, resolved_dep)
        ELSE deps

RECURSIVE AddAliases(_, _, _, _)
\* for alias in node.names: self._add_dependency(module_name, alias.name)
AddAliases(deps, mods, module_name, names) ==
    IF names = <<>> THEN deps
    ELSE AddAliases(AddDependency(deps, mods, module_name, Head(names), 0),
                    mods, module_name, Tail(names))

(* ----------------------------- _analyze_file --------------------------- *)
MapPut(map, key, val) ==
    [k \in DOMAIN map \cup {key} |-> IF k = key THEN val ELSE map[k]]

Key(module_name, name) == module_name \o <<Dot>> \o name

\* a count that stops at nested function and class definitions
ComplexityOwnScope(tree, n) ==
    Cardinality({d \in 1..Len(tree) :
                    /\ InSubtree(tree, d, n)
                    /\ tree[d].kind \in BranchKinds
                    /\ \A e \in 1..Len(tree) :
                          (e # n /\ InSubtree(tree, d, e) /\ InSubtree(tree, e, n))
                             => tree[e].kind \notin {"FunctionDef", "ClassDef"}}) + 1

\* sum(1 for n in ast.walk(node) if isinstance(n, (If, For, While, Try, With))) + 1
Complexity(tree, n) ==
    Cardinality({d \in 1..Len(tree) :
                    InSubtree(tree, d, n) /\ tree[d].kind \in BranchKinds}) + 1

\* [item.name for item in node.body if isinstance(item, ast.FunctionDef)]
Methods(tree, n) ==
    LET body == SelectSeq([d \in 1..Len(tree) |-> d],
                          LAMBDA d : tree[d].parent = n /\ tree[d].kind = "FunctionDef")
    IN  [d \in 1..Len(body) |-> tree[body[d]].name]

\* 'strategy' in node.name.lower() or 'strategies' in module_name
IsStrategy(name, module_name) ==
    Contains(Lower(name), StrategyWord) \/ Contains(module_name, StrategiesWord)

\* one iteration of the loop over ast.walk(tree)
VisitNode(acc, mods, module_name, tree, n) ==
    LET node == tree[n] IN
    CASE node.kind = "FunctionDef" ->
           [acc EXCEPT !.functions =
               MapPut(@, Key(module_name, node.name),
                      [complexity |-> Complexity(tree, n)])]
      [] node.kind = "ClassDef" ->
           [acc EXCEPT !.classes =
               MapPut(@, Key(module_name, node.name),
                      [methods |-> Methods(tree, n),
                       is_strategy |-> IsStrategy(node.name, module_name)])]
      [] node.kind = "Import" ->
           [acc EXCEPT !.dependencies = AddAliases(@, mods, module_name, node.names),
                       !.calls = @ + Len(node.names)]
      [] node.kind = "ImportFrom" ->
           IF node.module # <<>>
           THEN [acc EXCEPT !.dependencies =
                     AddDependency(@, mods, module_name, node.module, node.level),
                            !.calls = @ + 1]
           ELSE acc
      [] OTHER -> acc

RECURSIVE WalkNodes(_, _, _, _, _)
\* for node in ast.walk(tree): ...
WalkNodes(acc, mods, module_name, tree, n) ==
    IF n > Len(tree) THEN acc
    ELSE WalkNodes(VisitNode(acc, mods, module_name, tree, n),
                   mods, module_name, tree, n + 1)

\* the file the walk found at this path
FileAt(path) == CHOOSE f \in Range(fs) : f.path = path

\* 'if __name__ == "__main__"' in content
HasGuard(text) == \E k \in 1..Len(text) : text[k] = GuardText

\* a variant without the except clause: a parse error leaves the method
AnalyzeFileNoCatch(acc, mods, path) ==
    LET content     == FileAt(path).content
        module_name == ModuleName(path)
    IN  IF ~content.parses
        THEN [acc EXCEPT !.raised = TRUE]
        ELSE WalkNodes(
               [acc EXCEPT !.main_entry_points =
                    IF HasGuard(content.text) THEN Append(@, module_name) ELSE @],
               mods, module_name, content.tree, 1)

\* _analyze_file on the fields it writes; `raised` tells whether an exception
\* leaves the method, `calls` counts the _add_dependency calls made.
\* ast.parse comes first in the try block: when it raises, control goes to
\* the except clause, which only prints.
AnalyzeFile(acc, mods, path) ==
    LET content     == FileAt(path).content
        module_name == ModuleName(path)
    IN  IF ~content.parses
        THEN acc
        ELSE WalkNodes(
               [acc EXCEPT !.main_entry_points =
                    IF HasGuard(content.text) THEN Append(@, module_name) ELSE @],
               mods, module_name, content.tree, 1)

(* ------------------------------ actions -------------------------------- *)
Init ==
    /\ fs \in Trees
    /\ python_files = <<>>
    /\ project_modules = {}
    /\ functions = EmptyMap
    /\ classes = EmptyMap
    /\ main_entry_points = <<>>
    /\ dependencies = EmptyMap
    /\ data_files = <<>>
    /\ pc = "idle"
    /\ i = 1
    /\ j = 1
    /\ passes = 0
    /\ runs = 0
    /\ first = <<>>
    /\ addDepCalls = 0
    /\ entryHits = <<>>

\* run() is entered on a newly constructed auditor
RunBegin ==
    /\ pc = "idle"
    /\ passes < MaxPasses
    /\ pc' = "discover"
    /\ i' = 1
    /\ j' = 1
    /\ passes' = passes + 1
    /\ runs' = runs + 1
    /\ entryHits' = <<>>
    /\ UNCHANGED <<fs, python_files, project_modules, functions, classes,
                   main_entry_points, dependencies, data_files, first, addDepCalls>>

\* one iteration of the loop of _discover_files
DiscoverStep ==
    /\ pc = "discover"
    /\ i <= Len(Walk(fs))
    /\ LET st == DiscoverFile([python_files |-> python_files,
                               project_modules |-> project_modules,
                               data_files |-> data_files], Walk(fs)[i].path)
       IN  /\ python_files' = st.python_files
           /\ project_modules' = st.project_modules
           /\ data_files' = st.data_files
    /\ i' = i + 1
    /\ UNCHANGED <<fs, functions, classes, main_entry_points, dependencies, pc, j,
                   passes, runs, first, addDepCalls, entryHits>>

\* _discover_files returns; run() goes on to its loop over python_files
DiscoverDone ==
    /\ pc = "discover"
    /\ i > Len(Walk(fs))
    /\ pc' = "analyze"
    /\ j' = 1
    /\ UNCHANGED <<fs, python_files, project_modules, functions, classes,
                   main_entry_points, dependencies, data_files, i, passes, runs,
                   first, addDepCalls, entryHits>>

\* a variant of the loop of run() that starts before _discover_files is over
AnalyzeStepEarly ==
    /\ pc \in {"discover", "analyze"}
    /\ j <= Len(python_files)
    /\ LET r == AnalyzeFile([functions |-> functions, classes |-> classes,
                             dependencies |-> dependencies,
                             main_entry_points |-> main_entry_points,
                             raised |-> FALSE, calls |-> 0],
                            project_modules, python_files[j])
       IN  /\ functions' = r.functions
           /\ classes' = r.classes
           /\ dependencies' = r.dependencies
           /\ main_entry_points' = r.main_entry_points
           /\ addDepCalls' = addDepCalls + r.calls
           /\ entryHits' = Append(entryHits, r.main_entry_points # main_entry_points)
           /\ pc' = IF r.raised THEN "aborted" ELSE pc
    /\ j' = j + 1
    /\ UNCHANGED <<fs, python_files, project_modules, data_files, i, passes, runs, first>>

\* one iteration of `for file_path in self.python_files: self._analyze_file(file_path)`
AnalyzeStep ==
    /\ pc = "analyze"
    /\ j <= Len(python_files)
    /\ LET r == AnalyzeFile([functions |-> functions, classes |-> classes,
                             dependencies |-> dependencies,
                             main_entry_points |-> main_entry_points,
                             raised |-> FALSE, calls |-> 0],
                            project_modules, python_files[j])
       IN  /\ functions' = r.functions
           /\ classes' = r.classes
           /\ dependencies' = r.dependencies
           /\ main_entry_points' = r.main_entry_points
           /\ addDepCalls' = addDepCalls + r.calls
           /\ entryHits' = Append(entryHits, r.main_entry_points # main_entry_points)
           /\ pc' = IF r.raised THEN "aborted" ELSE "analyze"
    /\ j' = j + 1
    /\ UNCHANGED <<fs, python_files, project_modules, data_files, i, passes, runs, first>>

\* the loop is over; the report sections only read the store
Finish ==
    /\ pc = "analyze"
    /\ j > Len(python_files)
    /\ pc' = "done"
    /\ first' = IF first = <<>> THEN <<Store>> ELSE first
    /\ UNCHANGED <<fs, python_files, project_modules, functions, classes,
                   main_entry_points, dependencies, data_files, i, j, passes, runs,
                   addDepCalls, entryHits>>

\* a variant whose file list is shared between auditors (a class attribute)
ConstructKeepsFiles ==
    /\ pc = "done"
    /\ passes < MaxPasses
    /\ project_modules' = {}
    /\ functions' = EmptyMap
    /\ classes' = EmptyMap
    /\ main_entry_points' = <<>>
    /\ dependencies' = EmptyMap
    /\ data_files' = <<>>
    /\ pc' = "idle"
    /\ runs' = 0
    /\ UNCHANGED <<fs, python_files, i, j, passes, first, addDepCalls, entryHits>>

\* CodebaseAuditor(root_dir) is constructed anew over the same tree
Construct ==
    /\ pc = "done"
    /\ passes < MaxPasses
    /\ python_files' = <<>>
    /\ project_modules' = {}
    /\ functions' = EmptyMap
    /\ classes' = EmptyMap
    /\ main_entry_points' = <<>>
    /\ dependencies' = EmptyMap
    /\ data_files' = <<>>
    /\ pc' = "idle"
    /\ runs' = 0
    /\ UNCHANGED <<fs, i, j, passes, first, addDepCalls, entryHits>>

\* run() is called again on an auditor that has already run
RunAgain ==
    /\ pc = "done"
    /\ passes < MaxPasses
    /\ pc' = "discover"
    /\ i' = 1
    /\ j' = 1
    /\ passes' = passes + 1
    /\ runs' = runs + 1
    /\ entryHits' = <<>>
    /\ UNCHANGED <<fs, python_files, project_modules, functions, classes,
                   main_entry_points, dependencies, data_files, first, addDepCalls>>

\* one run() of a newly constructed auditor, as main() does
Next ==
    \/ RunBegin
    \/ DiscoverStep
    \/ DiscoverDone
    \/ AnalyzeStep
    \/ Finish

Spec == Init /\ [][Next]_vars

\* further passes over the same tree, on a new auditor or on the same one
NextRepeat ==
    \/ Next
    \/ Construct
    \/ RunAgain

SpecRepeat == Init /\ [][NextRepeat]_vars

(* ------------------- vocabulary of the properties ---------------------- *)
\* the discovered source files that parsed
ParsedFiles == {p \in Range(python_files) : FileAt(p).content.parses}

TreeOf(p) == FileAt(p).content.tree

NodesOfKind(tree, kind) == {n \in 1..Len(tree) : tree[n].kind = kind}

\* the positions of python_files the current run() has analyzed
Analyzed == 1..(IF pc = "done" THEN Len(python_files) ELSE j - 1)

\* the import statements of a tree as <<raw target, level>> pairs, one per
\* alias of a plain import and one per from-import
ImportsOf(tree) ==
    UNION {{<<tree[n].names[k], 0>> : k \in 1..Len(tree[n].names)} :
              n \in NodesOfKind(tree, "Import")}
    \cup {<<tree[n].module, tree[n].level>> : n \in NodesOfKind(tree, "ImportFrom")}

\* resolution as the specification words it
StatedResolve(source, target, level) ==
    IF level = 0 THEN target
    ELSE LET segs == Split(source, Dot)
             keep == IF level >= Len(segs) THEN <<>>
                     ELSE [k \in 1..(Len(segs) - level) |-> segs[k]]
         IN  IF target # <<>> THEN Join(Append(keep, target), Dot)
             ELSE Join(keep, Dot)

HasEdge(a, b) == a \in DOMAIN dependencies /\ b \in dependencies[a]

\* C1: after a full pass there is an edge A -> B exactly when B is a
\* discovered module and some import statement of A's file resolves to B
\* (level 0 verbatim; level > 0 on A's segments less the last `level`, the
\* base alone when the raw target is empty); no edge leaves the module set.
EdgeIffImportResolves ==
    pc = "done" =>
       /\ \A a \in DOMAIN dependencies : dependencies[a] \subseteq project_modules
       /\ \A a, b \in project_modules :
             HasEdge(a, b) <=>
                \E p \in ParsedFiles :
                   /\ ModuleName(p) = a
                   /\ \E imp \in ImportsOf(TreeOf(p)) : StatedResolve(a, imp[1], imp[2]) = b

\* C2: for a root holding exactly pkg/a.py and pkg/b.py, the latter being
\* `from . import a`, the pass ends with modules {pkg.a, pkg.b} and the
\* edge pkg.b -> pkg.a.
ScenarioFromDotImport ==
    (/\ pc = "done"
     /\ Range(fs) = {File(<<s_pkg, PyName(s_a)>>, ContentFIf),
                     File(<<s_pkg, PyName(s_b)>>, ContentFromDotA)})
    => /\ project_modules = {s_pkga, s_pkg \o <<Dot>> \o s_b}
       /\ HasEdge(s_pkg \o <<Dot>> \o s_b, s_pkga)

\* C3: _analyze_file records the file's module as an entry point exactly
\* when the raw text holds the execution guard, parsed or not.
EntryPointIffGuard ==
    \A k \in 1..Len(entryHits) :
       entryHits[k] <=> HasGuard(FileAt(python_files[k]).content.text)

\* every definition of a parsed, analyzed file has left its record
ParsedFilesAnalyzed ==
    \A k \in Analyzed :
       LET p == python_files[k] IN
       FileAt(p).content.parses =>
          /\ \A n \in NodesOfKind(TreeOf(p), "FunctionDef") :
                Key(ModuleName(p), TreeOf(p)[n].name) \in DOMAIN functions
          /\ \A n \in NodesOfKind(TreeOf(p), "ClassDef") :
                Key(ModuleName(p), TreeOf(p)[n].name) \in DOMAIN classes

\* C4: when the file _analyze_file is given does not parse, the call returns
\* normally, the function, class and dependency maps, the file list and the
\* module set are as before, run() goes on to the next file, and every file
\* that parses still leaves its records.
ParseFailureIsolated ==
    /\ [][(/\ pc = "analyze"
           /\ j <= Len(python_files)
           /\ ~FileAt(python_files[j]).content.parses)
          => (/\ pc' = "analyze"
              /\ j' = j + 1
              /\ functions' = functions
              /\ classes' = classes
              /\ dependencies' = dependencies
              /\ python_files' = python_files
              /\ project_modules' = project_modules)]_vars
    /\ [](pc # "aborted" /\ ParsedFilesAnalyzed)

\* a file that does not parse was analyzed and a later file left records
ParseFailureIsolatedWitness ==
    /\ pc = "done"
    /\ \E k \in 1..Len(python_files) :
          /\ ~FileAt(python_files[k]).content.parses
          /\ \E h \in (k + 1)..Len(python_files) :
                /\ FileAt(python_files[h]).content.parses
                /\ NodesOfKind(TreeOf(python_files[h]), "FunctionDef") # {}
    /\ functions # EmptyMap

RECURSIVE BranchCount(_, _)
RECURSIVE SumBranchCount(_, _)
\* the number of conditional, for, while, try and with nodes at or below n,
\* counted down the tree
BranchCount(tree, n) ==
    (IF tree[n].kind \in {"If", "For", "While", "Try", "With"} THEN 1 ELSE 0)
    + SumBranchCount(tree, {d \in 1..Len(tree) : tree[d].parent = n})

SumBranchCount(tree, S) ==
    IF S = {} THEN 0
    ELSE LET d == CHOOSE e \in S : TRUE
         IN  BranchCount(tree, d) + SumBranchCount(tree, S \ {d})

\* the function definitions, as <<path, node>>, whose record has this key
DefsOf(key) ==
    {d \in UNION {{<<p, n>> : n \in NodesOfKind(TreeOf(p), "FunctionDef")} : p \in ParsedFiles} :
        Key(ModuleName(d[1]), TreeOf(d[1])[d[2]].name) = key}

\* C5: every function record's complexity is 1 plus the number of
\* conditional, for, while, try and with nodes in the subtree of a function
\* definition it is the record of, nested function and class bodies
\* included; it is at least 1, and an outer function scores at least what a
\* function nested in it scores.
ComplexityIsBranchCountPlusOne ==
    /\ \A key \in DOMAIN functions :
          /\ functions[key].complexity >= 1
          /\ \E d \in DefsOf(key) :
                functions[key].complexity = 1 + BranchCount(TreeOf(d[1]), d[2])
    /\ \A k1, k2 \in DOMAIN functions :
          (/\ Cardinality(DefsOf(k1)) = 1
           /\ Cardinality(DefsOf(k2)) = 1
           /\ \E d1 \in DefsOf(k1), d2 \in DefsOf(k2) :
                 d1[1] = d2[1] /\ InSubtree(TreeOf(d1[1]), d2[2], d1[2]))
          => functions[k1].complexity >= functions[k2].complexity

\* records exist for an outer function scoring 5 and a nested one scoring 3
ComplexityWitness ==
    /\ \E k1, k2 \in DOMAIN functions :
          /\ functions[k1].complexity = 5
          /\ functions[k2].complexity = 3
          /\ \E d1 \in DefsOf(k1), d2 \in DefsOf(k2) :
                d1 # d2 /\ d1[1] = d2[1] /\ InSubtree(TreeOf(d1[1]), d2[2], d1[2])
    /\ \E k \in DOMAIN functions : functions[k].complexity = 1

\* the strategy rule as the specification words it
StatedStrategy(name, module_name) ==
    \/ Contains(Lower(name), StrategyWord)
    \/ Contains(Lower(name), StrategiesWord)
    \/ \E k \in 1..Len(Split(module_name, Dot)) : Split(module_name, Dot)[k] = StrategiesWord

\* C6: a class record's is_strategy is true exactly when the class name
\* contains "strategy" or "strategies" in any case or a segment of the
\* module path equals "strategies".
StrategyFlagAsStated ==
    \A k \in Analyzed :
       LET p == python_files[k] IN
       FileAt(p).content.parses =>
          \A n \in NodesOfKind(TreeOf(p), "ClassDef") :
             LET key == Key(ModuleName(p), TreeOf(p)[n].name) IN
             key \in DOMAIN classes =>
                (classes[key].is_strategy
                    <=> StatedStrategy(TreeOf(p)[n].name, ModuleName(p)))

\* discovery has returned
Discovered == pc \in {"analyze", "done"}

ModuleIdsInjective ==
    /\ Cardinality(project_modules) = Len(python_files)
    /\ \A a, b \in 1..Len(python_files) :
          a # b => ModuleName(python_files[a]) # ModuleName(python_files[b])

\* C7 as stated: after _discover_files distinct source files have distinct
\* identifiers and the module set is as large as the file list.
ModuleIdsUnique == Discovered => ModuleIdsInjective

\* no directory name and no file stem of a discovered source file holds a '.'
NoDottedNames ==
    \A k \in 1..Len(python_files) :
       LET p == python_files[k] IN
       /\ \A d \in 1..(Len(p) - 1) : Dot \notin Range(p[d])
       /\ Dot \notin Range(DropLast(p[Len(p)], 3))

\* C7 amended: the same, for trees whose discovered source files have no
\* '.' in a directory name or file stem.
ModuleIdsUniqueWithoutDots == (Discovered /\ NoDottedNames) => ModuleIdsInjective

\* two source files in different directories were discovered
ModuleIdsWitness ==
    /\ Discovered
    /\ NoDottedNames
    /\ Len(python_files) >= 2
    /\ \E a, b \in 1..Len(python_files) : Len(python_files[a]) # Len(python_files[b])

\* C8: after the pass the function records a parsed file contributed are as
\* many as the function definitions in its tree.
OneRecordPerDefinition ==
    pc = "done" =>
       \A p \in ParsedFiles :
          Cardinality({key \in DOMAIN functions :
                          \E n \in NodesOfKind(TreeOf(p), "FunctionDef") :
                             Key(ModuleName(p), TreeOf(p)[n].name) = key})
             = Cardinality(NodesOfKind(TreeOf(p), "FunctionDef"))

\* C9 as stated: a later pass over the same tree ends with the store the
\* first pass ended with.
RepeatedPassIdentical ==
    (pc = "done" /\ first # <<>>) => Store = first[1]

\* C9 amended: a later pass on a newly constructed auditor ends with the
\* store the first pass ended with; a run() repeated on the same auditor
\* ends with the same module set, function, class and dependency maps, and
\* with python_files and data_files holding each entry once per run().
RepeatedPassIdenticalOnNewAuditor ==
    (pc = "done" /\ first # <<>>) =>
       /\ runs = 1 => Store = first[1]
       /\ project_modules = first[1].project_modules
       /\ functions = first[1].functions
       /\ classes = first[1].classes
       /\ dependencies = first[1].dependencies
       /\ Len(python_files) = runs * Len(first[1].python_files)
       /\ Len(data_files) = runs * Len(first[1].data_files)

\* a second pass on a new auditor has ended with records of every kind
RepeatedPassWitness ==
    /\ pc = "done"
    /\ passes = 2
    /\ runs = 1
    /\ functions # EmptyMap
    /\ dependencies # EmptyMap
    /\ main_entry_points # <<>>

\* the identifier of every source file under the root outside the excluded
\* directories
AllModules ==
    {ModuleName(f.path) :
        f \in {g \in Range(fs) :
                 /\ EndsWith(g.path[Len(g.path)], ExtPy)
                 /\ \A k \in 1..(Len(g.path) - 1) : g.path[k] \notin ExcludedDirs}}

\* C10: whenever _add_dependency is called the module set is already
\* complete, and analysis never changes the module set.
DiscoveryPrecedesResolution ==
    [][/\ addDepCalls' > addDepCalls => (project_modules = AllModules /\ pc = "analyze")
       /\ pc = "analyze" => project_modules' = project_modules]_vars

\* the resolver ran and recorded an edge, over a tree with two modules
DiscoveryPrecedesResolutionWitness ==
    /\ pc = "done"
    /\ addDepCalls > 0
    /\ dependencies # EmptyMap
    /\ Cardinality(project_modules) >= 2

====
